---- MODULE Spec2Model ----
(***************************************************************************)
(* Model of packages/webapi/server.js (the final server variant, lines     *)
(* 477-674): the PDF loader and chunker, the term-frequency retrieval, the *)
(* per-session conversation memory and the POST /chat handler.             *)
(*                                                                         *)
(* A JavaScript string is a sequence of atoms.  Every atom is one          *)
(* character, except the atom "Z", which abbreviates a run of BlockLen     *)
(* copies of the letter z, and the three bracketed atoms that abbreviate   *)
(* the fixed prose of the system prompts.  Queries never contain z.        *)
(*                                                                         *)
(* The /chat handler is an async function: every await of the source is a  *)
(* point where other requests may run, and the code between two awaits     *)
(* runs without interruption (one action).  Calls into libraries           *)
(* (pdfParse, loadMemoryVariables, saveContext, chatModel.invoke) are      *)
(* modelled by their effect at the call.                                   *)
(***************************************************************************)
EXTENDS Integers, Sequences, FiniteSets, TLC

\* ------------------------------------------------------------------------
\* Bounds of the model
\* ------------------------------------------------------------------------
\* number of /chat requests of a run
MaxReq == 2
\* length of the run of letters that the atom "Z" abbreviates
BlockLen == 798
\* longest document text (in atoms) of the sequential loader's runs
MaxTextLen == 5
\* number of pdfParse calls of the sequential loader's runs
MaxLoads == 2
\* longest query (in atoms) of the retrieval runs
MaxQueryLen == 5

\* ------------------------------------------------------------------------
\* Strings
\* ------------------------------------------------------------------------
Null == <<"null">>

EmptyStr == << >>

IsSpace(c) == c = " "

AtomLen(c) == IF c = "Z" THEN BlockLen ELSE 1

\* String.prototype.length
RECURSIVE StrLen(_)
StrLen(s) == IF s = << >> THEN 0 ELSE AtomLen(Head(s)) + StrLen(Tail(s))

\* the truthiness of a string-or-null value: null and "" are falsy
Truthy(s) == s # Null /\ s # EmptyStr

LowerChar(c) == IF c = "A" THEN "a" ELSE IF c = "B" THEN "b" ELSE c

\* String.prototype.toLowerCase
toLowerCase(s) == [i \in 1..Len(s) |-> LowerChar(s[i])]

\* String.prototype.split(/\s+/): the pieces between the maximal runs of
\* whitespace; a leading or trailing run yields an empty first or last piece
RECURSIVE SplitFrom(_, _, _, _)
SplitFrom(s, i, cur, acc) ==
  IF i > Len(s) THEN Append(acc, cur)
  ELSE IF IsSpace(s[i])
       THEN IF i > 1 /\ IsSpace(s[i-1])
            THEN SplitFrom(s, i + 1, cur, acc)
            ELSE SplitFrom(s, i + 1, << >>, Append(acc, cur))
       ELSE SplitFrom(s, i + 1, Append(cur, s[i]), acc)

Split(s) == SplitFrom(s, 1, << >>, << >>)

\* Array.prototype.join
RECURSIVE Join(_, _)
Join(parts, sep) ==
  IF parts = << >> THEN << >>
  ELSE IF Len(parts) = 1 THEN parts[1]
  ELSE parts[1] \o sep \o Join(Tail(parts), sep)

\* ------------------------------------------------------------------------
\* loadPDF: the chunking loop
\* ------------------------------------------------------------------------
CHUNK_SIZE == 800

\* the chunking loop of a loader that tests the fit without the separator
RECURSIVE ChunkLoop_IgnoresSpace(_, _, _, _)
ChunkLoop_IgnoresSpace(words, i, currentChunk, chunks) ==
  IF i > Len(words)
  THEN IF currentChunk # EmptyStr THEN Append(chunks, currentChunk) ELSE chunks
  ELSE IF StrLen(currentChunk \o words[i]) <= CHUNK_SIZE
       THEN ChunkLoop_IgnoresSpace(words, i + 1,
                      currentChunk
                        \o (IF currentChunk # EmptyStr THEN <<" ">> ELSE << >>)
                        \o words[i],
                      chunks)
       ELSE ChunkLoop_IgnoresSpace(words, i + 1, words[i], Append(chunks, currentChunk))

\* the chunking loop of a loader that starts the next buffer empty, without
\* the word that did not fit
RECURSIVE ChunkLoop_DropsWord(_, _, _, _)
ChunkLoop_DropsWord(words, i, currentChunk, chunks) ==
  IF i > Len(words)
  THEN IF currentChunk # EmptyStr THEN Append(chunks, currentChunk) ELSE chunks
  ELSE IF StrLen(currentChunk \o <<" ">> \o words[i]) <= CHUNK_SIZE
       THEN ChunkLoop_DropsWord(words, i + 1,
                      currentChunk
                        \o (IF currentChunk # EmptyStr THEN <<" ">> ELSE << >>)
                        \o words[i],
                      chunks)
       ELSE ChunkLoop_DropsWord(words, i + 1, EmptyStr, Append(chunks, currentChunk))

\* for (const word of words) { ... }, from word i on
RECURSIVE ChunkLoop(_, _, _, _)
ChunkLoop(words, i, currentChunk, chunks) ==
  IF i > Len(words)
  THEN IF currentChunk # EmptyStr THEN Append(chunks, currentChunk) ELSE chunks
  ELSE IF StrLen(currentChunk \o <<" ">> \o words[i]) <= CHUNK_SIZE
       THEN ChunkLoop(words, i + 1,
                      currentChunk
                        \o (IF currentChunk # EmptyStr THEN <<" ">> ELSE << >>)
                        \o words[i],
                      chunks)
       ELSE ChunkLoop(words, i + 1, words[i], Append(chunks, currentChunk))

\* the chunk list after loadPDF has chunked `text` onto the list `chunks`
ChunkText(text, chunks) == ChunkLoop(Split(text), 1, EmptyStr, chunks)

\* ------------------------------------------------------------------------
\* retrieveRelevantContent
\* ------------------------------------------------------------------------
Punctuation == {".", ",", "?", "!", ";", ":", "(", ")", "\"", "'"}

NotPunctuation(c) == c \notin Punctuation

\* term.replace(/[.,?!;:()"']/g, "")
StripPunctuation(term) == SelectSeq(term, NotPunctuation)

LongerThan3(term) == StrLen(term) > 3

\* query.toLowerCase().split(/\s+/).filter(...).map(...)
QueryTerms(query) ==
  LET kept == SelectSeq(Split(toLowerCase(query)), LongerThan3)
  IN  [i \in 1..Len(kept) |-> StripPunctuation(kept[i])]

\* new RegExp(term, 'gi') for a term over letters, "$" and "[": a "[" opens
\* a character class that nothing closes, and the constructor throws a
\* SyntaxError; "$" asserts the end of the input; a letter matches itself.
RegExpThrows(term) == \E i \in 1..Len(term) : term[i] = "["

\* the position after a match of pat[k..] that starts at position p of s,
\* or 0 when there is none (flag i: letters compare without case)
RECURSIVE MatchFrom(_, _, _, _)
MatchFrom(pat, k, s, p) ==
  IF k > Len(pat) THEN p
  ELSE IF pat[k] = "$"
       THEN IF p = Len(s) + 1 THEN MatchFrom(pat, k + 1, s, p) ELSE 0
       ELSE IF p <= Len(s) /\ LowerChar(s[p]) = LowerChar(pat[k])
            THEN MatchFrom(pat, k + 1, s, p + 1)
            ELSE 0

\* s.match(regex) with flag g: the number of matches, found left to right,
\* each search resuming after the previous match (one character further
\* after an empty match; an empty match inside s occurs before every
\* character, so AtomLen times per atom)
RECURSIVE CountFrom(_, _, _)
CountFrom(pat, s, p) ==
  IF p > Len(s) + 1 THEN 0
  ELSE LET e == MatchFrom(pat, 1, s, p)
       IN  IF e = 0 THEN CountFrom(pat, s, p + 1)
           ELSE IF e = p
                THEN (IF p <= Len(s) THEN AtomLen(s[p]) ELSE 1)
                       + CountFrom(pat, s, p + 1)
                ELSE 1 + CountFrom(pat, s, e)

MatchCount(term, chunkLower) == CountFrom(term, chunkLower, 1)

\* the score loop of a retrieval that leaves the loop after its first term
RECURSIVE ScoreFrom_FirstTermOnly(_, _, _)
ScoreFrom_FirstTermOnly(chunkLower, queryTerms, i) ==
  IF i > Len(queryTerms) \/ i > 1 THEN 0
  ELSE MatchCount(queryTerms[i], chunkLower)

\* the score of one chunk: for (const term of queryTerms) score += matches
RECURSIVE ScoreFrom(_, _, _)
ScoreFrom(chunkLower, queryTerms, i) ==
  IF i > Len(queryTerms) THEN 0
  ELSE MatchCount(queryTerms[i], chunkLower)
         + ScoreFrom(chunkLower, queryTerms, i + 1)

Score(chunk, queryTerms) == ScoreFrom(toLowerCase(chunk), queryTerms, 1)

ScoredChunks(chunks, queryTerms) ==
  [i \in 1..Len(chunks) |->
     [chunk |-> chunks[i], score |-> Score(chunks[i], queryTerms)]]

PositiveScore(item) == item.score > 0

\* a sort that puts an item before the items of equal score (not stable)
RECURSIVE InsertByScore_BeforeEquals(_, _)
InsertByScore_BeforeEquals(sorted, item) ==
  IF sorted = << >> THEN <<item>>
  ELSE IF Head(sorted).score > item.score
       THEN <<Head(sorted)>> \o InsertByScore_BeforeEquals(Tail(sorted), item)
       ELSE <<item>> \o sorted

\* .sort((a, b) => b.score - a.score): Array.prototype.sort is stable, so
\* an item goes after every item whose score is at least its own
RECURSIVE InsertByScore(_, _)
InsertByScore(sorted, item) ==
  IF sorted = << >> THEN <<item>>
  ELSE IF Head(sorted).score >= item.score
       THEN <<Head(sorted)>> \o InsertByScore(Tail(sorted), item)
       ELSE <<item>> \o sorted

RECURSIVE SortByScore(_, _)
SortByScore(items, i) ==
  IF i = 0 THEN << >>
  ELSE InsertByScore(SortByScore(items, i - 1), items[i])

\* .slice(0, 3)
TopK == 3

Slice(items, n) == SubSeq(items, 1, IF Len(items) < n THEN Len(items) ELSE n)

\* retrieveRelevantContent that compiles the terms before it maps the chunks
retrieveRelevantContent_CompilesFirst(query, chunks) ==
  LET queryTerms == QueryTerms(query)
      kept   == SelectSeq(ScoredChunks(chunks, queryTerms), PositiveScore)
      sorted == SortByScore(kept, Len(kept))
      top    == Slice(sorted, TopK)
  IN  IF queryTerms = << >> THEN [threw |-> FALSE, value |-> << >>]
      ELSE IF \E i \in 1..Len(queryTerms) : RegExpThrows(queryTerms[i])
           THEN [threw |-> TRUE, value |-> << >>]
           ELSE [threw |-> FALSE, value |-> [i \in 1..Len(top) |-> top[i].chunk]]

\* retrieveRelevantContent(query) on the chunk list `chunks`:
\* threw = the call ends in the SyntaxError of new RegExp (which runs inside
\* the map callback, so only when there is a term and a chunk)
retrieveRelevantContent(query, chunks) ==
  LET queryTerms == QueryTerms(query)
      kept   == SelectSeq(ScoredChunks(chunks, queryTerms), PositiveScore)
      sorted == SortByScore(kept, Len(kept))
      top    == Slice(sorted, TopK)
  IN  IF queryTerms = << >> THEN [threw |-> FALSE, value |-> << >>]
      ELSE IF chunks # << >> /\ \E i \in 1..Len(queryTerms) : RegExpThrows(queryTerms[i])
           THEN [threw |-> TRUE, value |-> << >>]
           ELSE [threw |-> FALSE, value |-> [i \in 1..Len(top) |-> top[i].chunk]]

\* ------------------------------------------------------------------------
\* Inputs of the runs
\* ------------------------------------------------------------------------
Reqs == 1..MaxReq

\* the texts pdfParse may extract from data/employee_handbook.pdf
DocTexts ==
  { <<"Z", "a", "a", " ", "A", "b", "a", "b", " ", "Z", " ", "a", "b", "a", "b", " ", "a", "b", "a", "b">> }

\* req.body.message
Messages ==
  { <<"a", "b", "a", "b">>,
    <<"a", "b", "?">>,
    <<"a", "[", "b", "b">> }

\* req.body.useRAG and req.body.sessionId; "undefined" = the field is absent
BodyUseRAG == {"undefined", "true", "false"}

BodySessionId == {"undefined", "s1"}

\* response.content of a successful chatModel.invoke
Replies == { <<"o", "k">> }

\* ------------------------------------------------------------------------
\* State
\* ------------------------------------------------------------------------
VARIABLES
  fileExists,      \* fs.existsSync(pdfPath)
  fileText,        \* the text pdfParse extracts from the file
  pdfText,         \* let pdfText = null
  pdfChunks,       \* let pdfChunks = []
  sessionMemories, \* session id -> the messages of its ChatMessageHistory
  req,             \* the state of every /chat request
  owner,           \* history: session id -> the request that appended each turn
  parseCount       \* history: the number of pdfParse calls made

vars == <<fileExists, fileText, pdfText, pdfChunks, sessionMemories, req, owner, parseCount>>

SessionIds == {"default", "s1"}

NoResponse == [status |-> 0, reply |-> EmptyStr, sources |-> << >>]

IdleReq ==
  [pc |-> "idle", userMessage |-> EmptyStr, useRAG |-> FALSE,
   bodySessionId |-> "undefined", sessionId |-> "default",
   chat_history |-> << >>, sources |-> << >>, messages |-> << >>,
   reply |-> EmptyStr, response |-> NoResponse]

Init ==
  /\ \/ fileExists = FALSE /\ fileText = EmptyStr
     \/ fileExists = TRUE /\ fileText \in DocTexts
  /\ pdfText = Null
  /\ pdfChunks = << >>
  /\ sessionMemories = << >>
  /\ req = [r \in Reqs |-> IdleReq]
  /\ owner = [s \in SessionIds |-> << >>]
  /\ parseCount = 0

\* ------------------------------------------------------------------------
\* Conversation memory
\* ------------------------------------------------------------------------
\* getSessionMemory that makes a new memory at every call
getSessionMemory_Resets(store, sessionId) ==
  [s \in DOMAIN store \cup {sessionId} |-> IF s = sessionId THEN << >> ELSE store[s]]

\* getSessionMemory(sessionId): the store after the call
getSessionMemory(store, sessionId) ==
  IF sessionId \in DOMAIN store THEN store ELSE store @@ (sessionId :> << >>)

\* the history of a session; a session that does not exist has none
getHistory(store, sessionId) ==
  IF sessionId \in DOMAIN store THEN store[sessionId] ELSE << >>

UserTurn(content) == [role |-> "user", content |-> content]

AssistantTurn(content) == [role |-> "assistant", content |-> content]

\* saveContext with the two turns in the wrong order
saveContext_AssistantFirst(history, input, output) ==
  history \o <<AssistantTurn(output), UserTurn(input)>>

\* memory.saveContext({ input }, { output }): the messages after the call
saveContext(history, input, output) ==
  history \o <<UserTurn(input), AssistantTurn(output)>>

\* ------------------------------------------------------------------------
\* Prompt assembly
\* ------------------------------------------------------------------------
GroundedContent(sources) ==
  <<"[ONLY use the information provided below]">>
    \o Join(sources, <<"\n", "\n">>)
    \o <<"[END OF EXCERPTS]">>

NoInfoContent == <<"[The excerpts do not contain relevant information]">>

GenericContent == <<"[You are a helpful and knowledgeable assistant]">>

\* SystemMessage that grounds the answer whenever RAG is on
SystemMessage_AlwaysGrounded(useRAG, sources) ==
  [role |-> "system",
   content |-> IF useRAG THEN GroundedContent(sources) ELSE GenericContent]

\* const systemMessage = useRAG ? { ... } : { ... }
SystemMessage(useRAG, sources) ==
  [role |-> "system",
   content |-> IF useRAG
               THEN IF Len(sources) > 0 THEN GroundedContent(sources) ELSE NoInfoContent
               ELSE GenericContent]

\* BuildMessages with the new user message ahead of the history
BuildMessages_UserBeforeHistory(systemMessage, chat_history, userMessage) ==
  <<systemMessage, UserTurn(userMessage)>> \o chat_history

\* const messages = [systemMessage, ...(memoryVars.chat_history || []), {...}]
BuildMessages(systemMessage, chat_history, userMessage) ==
  <<systemMessage>> \o chat_history \o <<UserTurn(userMessage)>>

\* ------------------------------------------------------------------------
\* POST /chat (lines 608-647), one action per stretch between two awaits
\* ------------------------------------------------------------------------
\* lines 609-614: the request arrives; the handler reads the body, gets (or
\* creates) the session's memory and reads its history
ChatBegin(r) ==
  /\ req[r].pc = "idle"
  /\ IF r = 1 THEN TRUE ELSE req[r - 1].pc # "idle"
  /\ \E message \in Messages, bodyUseRAG \in BodyUseRAG, bodySessionId \in BodySessionId :
       LET useRAG == IF bodyUseRAG = "undefined" THEN TRUE ELSE bodyUseRAG = "true"
           sessionId == IF bodySessionId = "undefined" THEN "default" ELSE bodySessionId
           store == getSessionMemory(sessionMemories, sessionId)
       IN  /\ sessionMemories' = store
           /\ req' = [req EXCEPT ![r] =
                        [@ EXCEPT !.pc = "memory",
                                  !.userMessage = message,
                                  !.useRAG = useRAG,
                                  !.bodySessionId = bodySessionId,
                                  !.sessionId = sessionId,
                                  !.chat_history = store[sessionId]]]
  /\ UNCHANGED <<fileExists, fileText, pdfText, pdfChunks, owner, parseCount>>

\* lines 619-636: the system message and the message list are built and
\* chatModel.invoke(messages) is called
CallModel(r, sources) ==
  [req EXCEPT ![r] =
     [@ EXCEPT !.pc = "invoke",
               !.sources = sources,
               !.messages = BuildMessages(SystemMessage(req[r].useRAG, sources),
                                          req[r].chat_history,
                                          req[r].userMessage)]]

\* lines 538-542: loadPDF() is called and runs up to its return (the text is
\* cached, or the file does not exist) or to its await of pdfParse
loadPDFCall(r) ==
  IF Truthy(pdfText) \/ ~fileExists
  THEN /\ req' = [req EXCEPT ![r].pc = "loaded"]
       /\ UNCHANGED parseCount
  ELSE /\ req' = [req EXCEPT ![r].pc = "parse"]
       /\ parseCount' = parseCount + 1

\* AfterMemory of a handler that retrieves whatever useRAG says
AfterMemory_AlwaysRetrieves(r) ==
  /\ req[r].pc = "memory"
  /\ IF req[r].useRAG
     THEN loadPDFCall(r)
     ELSE /\ req' = CallModel(r, retrieveRelevantContent(req[r].userMessage, pdfChunks).value)
          /\ UNCHANGED parseCount
  /\ UNCHANGED <<fileExists, fileText, pdfText, pdfChunks, sessionMemories, owner>>

\* lines 615-616: loadMemoryVariables has resolved; with RAG the handler
\* calls loadPDF, without RAG it goes on to the model call
AfterMemory(r) ==
  /\ req[r].pc = "memory"
  /\ IF req[r].useRAG
     THEN loadPDFCall(r)
     ELSE /\ req' = CallModel(r, << >>)
          /\ UNCHANGED parseCount
  /\ UNCHANGED <<fileExists, fileText, pdfText, pdfChunks, sessionMemories, owner>>

\* lines 543-555: pdfParse has resolved; the text is stored and chunked
\* onto pdfChunks, and loadPDF returns
ParseDone(r) ==
  /\ req[r].pc = "parse"
  /\ pdfText' = fileText
  /\ pdfChunks' = ChunkText(fileText, pdfChunks)
  /\ req' = [req EXCEPT ![r].pc = "loaded"]
  /\ UNCHANGED <<fileExists, fileText, sessionMemories, owner, parseCount>>

\* lines 617-636: loadPDF has returned; retrieval runs, and unless it throws
\* (outside the try: the handler's promise rejects and no response is sent)
\* the model is called
AfterLoadPDF(r) ==
  /\ req[r].pc = "loaded"
  /\ LET found == retrieveRelevantContent(req[r].userMessage, pdfChunks)
     IN  req' = IF found.threw
                THEN [req EXCEPT ![r].pc = "rejected"]
                ELSE CallModel(r, found.value)
  /\ UNCHANGED <<fileExists, fileText, pdfText, pdfChunks, sessionMemories, owner, parseCount>>

\* InvokeResolved of a handler whose append of the assistant turn is left to
\* a later step
InvokeResolved_UserTurnOnly(r) ==
  /\ req[r].pc = "invoke"
  /\ \E reply \in Replies :
       /\ sessionMemories' =
            [sessionMemories EXCEPT ![req[r].sessionId] =
               Append(@, UserTurn(req[r].userMessage))]
       /\ req' = [req EXCEPT ![r] = [@ EXCEPT !.pc = "save", !.reply = reply]]
  /\ owner' = [owner EXCEPT ![req[r].sessionId] = Append(@, r)]
  /\ UNCHANGED <<fileExists, fileText, pdfText, pdfChunks, parseCount>>

\* InvokeResolved of a handler that writes back the history it read at the
\* start of the request, extended by the exchange
InvokeResolved_WritesBack(r) ==
  /\ req[r].pc = "invoke"
  /\ \E reply \in Replies :
       /\ sessionMemories' =
            [sessionMemories EXCEPT ![req[r].sessionId] =
               saveContext(req[r].chat_history, req[r].userMessage, reply)]
       /\ req' = [req EXCEPT ![r] = [@ EXCEPT !.pc = "save", !.reply = reply]]
  /\ owner' = [owner EXCEPT ![req[r].sessionId] = @ \o <<r, r>>]
  /\ UNCHANGED <<fileExists, fileText, pdfText, pdfChunks, parseCount>>

\* InvokeResolved of a handler that saves every exchange in one memory, that
\* of the session "default"
InvokeResolved_SavesToDefault(r) ==
  /\ req[r].pc = "invoke"
  /\ \E reply \in Replies :
       /\ sessionMemories' =
            [s \in DOMAIN sessionMemories \cup {"default"} |->
               IF s = "default"
               THEN saveContext(getHistory(sessionMemories, s), req[r].userMessage, reply)
               ELSE sessionMemories[s]]
       /\ req' = [req EXCEPT ![r] = [@ EXCEPT !.pc = "save", !.reply = reply]]
  /\ owner' = [owner EXCEPT !["default"] = @ \o <<r, r>>]
  /\ UNCHANGED <<fileExists, fileText, pdfText, pdfChunks, parseCount>>

\* lines 636-637: chatModel.invoke resolved with `reply`; saveContext appends
\* the exchange to the session's history
InvokeResolved(r) ==
  /\ req[r].pc = "invoke"
  /\ \E reply \in Replies :
       /\ sessionMemories' =
            [sessionMemories EXCEPT ![req[r].sessionId] =
               saveContext(@, req[r].userMessage, reply)]
       /\ req' = [req EXCEPT ![r] = [@ EXCEPT !.pc = "save", !.reply = reply]]
  /\ owner' = [owner EXCEPT ![req[r].sessionId] = @ \o <<r, r>>]
  /\ UNCHANGED <<fileExists, fileText, pdfText, pdfChunks, parseCount>>

\* InvokeRejected of a handler that records the user turn before the call
InvokeRejected_SavesInput(r) ==
  /\ req[r].pc = "invoke"
  /\ sessionMemories' =
       [sessionMemories EXCEPT ![req[r].sessionId] = Append(@, UserTurn(req[r].userMessage))]
  /\ req' = [req EXCEPT ![r] =
               [@ EXCEPT !.pc = "done",
                         !.response = [status |-> 500, reply |-> EmptyStr, sources |-> << >>]]]
  /\ UNCHANGED <<fileExists, fileText, pdfText, pdfChunks, owner, parseCount>>

\* lines 639-646: chatModel.invoke rejected; the catch block answers 500
InvokeRejected(r) ==
  /\ req[r].pc = "invoke"
  /\ req' = [req EXCEPT ![r] =
               [@ EXCEPT !.pc = "done",
                         !.response = [status |-> 500, reply |-> EmptyStr, sources |-> << >>]]]
  /\ UNCHANGED <<fileExists, fileText, pdfText, pdfChunks, sessionMemories, owner, parseCount>>

\* line 638: saveContext has resolved; res.json({ reply, sources })
Respond(r) ==
  /\ req[r].pc = "save"
  /\ req' = [req EXCEPT ![r] =
               [@ EXCEPT !.pc = "done",
                         !.response = [status |-> 200, reply |-> req[r].reply,
                                       sources |-> req[r].sources]]]
  /\ UNCHANGED <<fileExists, fileText, pdfText, pdfChunks, sessionMemories, owner, parseCount>>

Next ==
  \E r \in Reqs :
    \/ ChatBegin(r)
    \/ AfterMemory(r)
    \/ ParseDone(r)
    \/ AfterLoadPDF(r)
    \/ InvokeResolved(r)
    \/ InvokeRejected(r)
    \/ Respond(r)

Spec == Init /\ [][Next]_vars

\* ------------------------------------------------------------------------
\* A sequential caller of loadPDF, on every text of at most MaxTextLen atoms
\* ------------------------------------------------------------------------
TextAtoms == {"a", "b", " ", "Z"}

AllTexts == UNION { [1..n -> TextAtoms] : n \in 0..MaxTextLen }

InitLoader ==
  /\ \/ fileExists = FALSE /\ fileText = EmptyStr
     \/ fileExists = TRUE /\ fileText \in AllTexts
  /\ pdfText = Null
  /\ pdfChunks = << >>
  /\ sessionMemories = << >>
  /\ req = [r \in Reqs |-> IdleReq]
  /\ owner = [s \in SessionIds |-> << >>]
  /\ parseCount = 0

\* await loadPDF() is called
LoaderCall ==
  /\ req[1].pc = "idle"
  /\ parseCount < MaxLoads
  /\ loadPDFCall(1)
  /\ UNCHANGED <<fileExists, fileText, pdfText, pdfChunks, sessionMemories, owner>>

LoaderParseDone == ParseDone(1)

\* the call has returned; the caller may call again
LoaderReturn ==
  /\ req[1].pc = "loaded"
  /\ req' = [req EXCEPT ![1].pc = "idle"]
  /\ UNCHANGED <<fileExists, fileText, pdfText, pdfChunks, sessionMemories, owner, parseCount>>

NextLoader == LoaderCall \/ LoaderParseDone \/ LoaderReturn

SpecLoader == InitLoader /\ [][NextLoader]_vars

\* ------------------------------------------------------------------------
\* Retrieval for one RAG request on a loaded (or missing) corpus, on every
\* query of at most MaxQueryLen atoms and on two longer queries
\* ------------------------------------------------------------------------
Vacation == <<"v", "a", "c", "a", "t", "i", "o", "n">>

Policy == <<"p", "o", "l", "i", "c", "y">>

VacationPolicy == Vacation \o <<" ">> \o Policy

Abab == <<"a", "b", "a", "b">>

\* texts whose chunks hold the terms of the queries 0, 1, 2 and more times
RetrieveTexts ==
  { <<"Z", "a", "a", " ", "A", "b", "a", "b", " ", "Z", " ">> \o Abab \o <<" ">> \o Abab,
    Abab \o <<" ", "Z", " ">> \o Abab \o <<" ", "Z", " ">> \o Abab \o <<" ">> \o Abab
         \o <<" ", "Z", " ">> \o Abab \o <<" ", "Z", " ", "b">>,
    Policy \o <<" ", "Z", " ">> \o VacationPolicy \o <<" ", "Z", " ">>
         \o VacationPolicy \o <<" ">> \o VacationPolicy }

QueryAtoms == {"a", "b", "?", "$", "[", " "}

RetrieveQueries ==
  UNION { [1..n -> QueryAtoms] : n \in 0..MaxQueryLen }
    \cup { VacationPolicy, <<"A", "B", "a", "b">> }

InitRetrieve ==
  /\ \/ /\ fileExists = FALSE /\ fileText = EmptyStr
        /\ pdfText = Null /\ pdfChunks = << >> /\ parseCount = 0
     \/ /\ fileExists = TRUE /\ fileText \in RetrieveTexts
        /\ pdfText = fileText /\ pdfChunks = ChunkText(fileText, << >>) /\ parseCount = 1
  /\ sessionMemories = ("default" :> << >>)
  /\ req = [r \in Reqs |-> IdleReq]
  /\ owner = [s \in SessionIds |-> << >>]

\* a RAG request with the query as its message has arrived and loadPDF has
\* returned
RetrieveBegin ==
  /\ req[1].pc = "idle"
  /\ \E query \in RetrieveQueries :
       req' = [req EXCEPT ![1] =
                 [@ EXCEPT !.pc = "loaded", !.userMessage = query, !.useRAG = TRUE]]
  /\ UNCHANGED <<fileExists, fileText, pdfText, pdfChunks, sessionMemories, owner, parseCount>>

RetrieveRun == AfterLoadPDF(1)

NextRetrieve == RetrieveBegin \/ RetrieveRun

SpecRetrieve == InitRetrieve /\ [][NextRetrieve]_vars

\* ------------------------------------------------------------------------
\* Properties
\* ------------------------------------------------------------------------
Answered(r) == req[r].pc = "done" /\ req[r].response.status = 200

Failed(r) == req[r].pc = "done" /\ req[r].response.status = 500

\* C1: a request whose model invocation fails appends nothing: the step in
\* which chatModel.invoke rejects leaves the history of every session as it
\* was, whatever requests succeeded or failed before it.
C1_FailedInvokeKeepsHistory ==
  [][\A r \in Reqs :
       (req[r].pc = "invoke" /\ req'[r].pc = "done" /\ req'[r].response.status = 500)
         => sessionMemories' = sessionMemories]_vars

\* a request has failed on a session on which another request had succeeded
C1_Witness ==
  \E r, q \in Reqs :
    /\ Failed(r) /\ Answered(q)
    /\ req[r].sessionId = req[q].sessionId
    /\ req[r].chat_history # << >>
    /\ Len(sessionMemories[req[r].sessionId]) = 2

\* C2: a successful exchange appends to the session's history exactly one
\* user turn with the request's message and then one assistant turn with the
\* model's reply; on a session with no history the result is exactly
\* [user message, assistant reply].
C2_ExchangeAppendsPair ==
  [][\A r \in Reqs :
       (req[r].pc = "invoke" /\ req'[r].pc = "save")
         => /\ sessionMemories'[req[r].sessionId] =
                 sessionMemories[req[r].sessionId]
                   \o << [role |-> "user", content |-> req[r].userMessage],
                         [role |-> "assistant", content |-> req'[r].reply] >>
            /\ \A s \in DOMAIN sessionMemories :
                 s # req[r].sessionId => sessionMemories'[s] = sessionMemories[s]]_vars

\* the first exchange of a session has completed
C2_Witness ==
  \E r \in Reqs :
    /\ Answered(r)
    /\ req[r].chat_history = << >>
    /\ sessionMemories[req[r].sessionId] =
         << [role |-> "user", content |-> req[r].userMessage],
            [role |-> "assistant", content |-> req[r].reply] >>

\* C3: under any interleaving of /chat requests the corpus is chunked at
\* most once: the chunk list is empty or holds the chunks of the document
\* exactly once.
C3_ChunksLoadedAtMostOnce ==
  pdfChunks = << >> \/ pdfChunks = ChunkText(fileText, << >>)

\* the request that has appended its exchange to a session
Saved(r) == req[r].pc = "save" \/ Answered(r)

C5_NoLostUpdate ==
  \A s \in SessionIds :
    LET done == {r \in Reqs : req[r].sessionId = s /\ Saved(r)}
        h == getHistory(sessionMemories, s)
    IN  /\ Len(h) = 2 * Cardinality(done)
        /\ \A r \in done :
             \E k \in 1..(Len(h) \div 2) :
               /\ owner[s][2 * k - 1] = r
               /\ h[2 * k - 1] = [role |-> "user", content |-> req[r].userMessage]
               /\ h[2 * k] = [role |-> "assistant", content |-> req[r].reply]

\* two requests created and read a session before either appended to it,
\* and both have been answered
C5_Witness ==
  /\ Answered(1) /\ Answered(2)
  /\ req[1].sessionId = "s1" /\ req[2].sessionId = "s1"
  /\ req[1].chat_history = << >>
  /\ req[2].chat_history = << >>
  /\ Len(sessionMemories["s1"]) = 4

\* the request has built its message list and called the model
Called(r) == req[r].pc \in {"invoke", "save", "done"}

IsPrefix(p, q) == Len(p) <= Len(q) /\ SubSeq(q, 1, Len(p)) = p

\* C6: the message list handed to the model is one system message, then the
\* turns read from the session in their stored order, then one user message
\* with the request's message, and nothing else.
C6_MessageListShape ==
  \A r \in Reqs :
    Called(r) =>
      LET m == req[r].messages
          n == Len(m)
      IN  /\ n = Len(req[r].chat_history) + 2
          /\ m[1].role = "system"
          /\ SubSeq(m, 2, n - 1) = req[r].chat_history
          /\ m[n] = [role |-> "user", content |-> req[r].userMessage]
          /\ \A i \in 2..n : m[i].role # "system"
          /\ IsPrefix(req[r].chat_history, sessionMemories[req[r].sessionId])

\* a request on a session with history has called the model
C6_Witness ==
  \E r \in Reqs :
    /\ req[r].pc = "invoke"
    /\ Len(req[r].chat_history) = 2
    /\ req[r].chat_history[1].content # req[r].userMessage

\* C7: with RAG, the sources of a request are the chunks that retrieval
\* returned, in its order; the system message is the grounded variant with
\* exactly those chunks if there is one, the no-information variant if there
\* is none; and the response reports those sources.
C7_RagSourcesAndPrompt ==
  [][\A r \in Reqs :
       /\ (req[r].pc = "loaded" /\ req'[r].pc = "invoke")
            => LET found == retrieveRelevantContent(req[r].userMessage, pdfChunks).value
               IN  /\ req'[r].sources = found
                   /\ req'[r].messages[1] =
                        [role |-> "system",
                         content |-> IF found # << >>
                                     THEN GroundedContent(found)
                                     ELSE NoInfoContent]
       /\ (req[r].useRAG /\ req[r].pc = "save" /\ req'[r].pc = "done")
            => /\ req'[r].response.sources = req[r].sources
               /\ req'[r].messages = req[r].messages]_vars

\* a RAG request has been answered with sources, another with none although
\* the chunk list was loaded
C7_Witness ==
  \E r, q \in Reqs :
    /\ Answered(r) /\ req[r].useRAG /\ req[r].response.sources # << >>
    /\ req[r].messages[1].content = GroundedContent(req[r].response.sources)
    /\ Answered(q) /\ req[q].useRAG /\ req[q].response.sources = << >>
    /\ req[q].messages[1].content = NoInfoContent
    /\ pdfChunks # << >>

\* C8: without RAG the sources are empty and the system message is the
\* generic variant, whatever the corpus, the chunk list and the query.
C8_NoRagIsGeneric ==
  \A r \in Reqs :
    (Called(r) /\ ~req[r].useRAG) =>
      /\ req[r].sources = << >>
      /\ req[r].messages[1] = [role |-> "system", content |-> GenericContent]
      /\ Answered(r) => req[r].response.sources = << >>

\* a request without RAG has been answered while the chunk list holds chunks
\* that its message matches
C8_Witness ==
  \E r \in Reqs :
    /\ Answered(r) /\ ~req[r].useRAG
    /\ pdfChunks # << >>
    /\ retrieveRelevantContent(req[r].userMessage, pdfChunks).value # << >>

\* C9: when the corpus file does not exist, a RAG request does not fail
\* because of it: nothing is parsed, the chunk list stays empty, no request
\* is rejected, the sources are empty and the system message is the
\* no-information variant.
C9_MissingCorpusDegrades ==
  ~fileExists =>
    /\ pdfChunks = << >>
    /\ parseCount = 0
    /\ \A r \in Reqs :
         /\ req[r].pc # "rejected"
         /\ (Called(r) /\ req[r].useRAG) =>
              /\ req[r].sources = << >>
              /\ req[r].messages[1] = [role |-> "system", content |-> NoInfoContent]
              /\ Answered(r) => req[r].response.sources = << >>

\* without the corpus file, a RAG request whose message is no valid pattern
\* has been answered
C9_Witness ==
  /\ ~fileExists
  /\ \E r \in Reqs :
       /\ Answered(r) /\ req[r].useRAG
       /\ \E i \in 1..Len(req[r].userMessage) : req[r].userMessage[i] = "["

NonEmpty(w) == w # EmptyStr

\* the word sequence of a string: its maximal runs of non-whitespace
Words(s) == SelectSeq(Split(s), NonEmpty)

\* C10: chunking loses no content: the chunks of a loaded text, joined in
\* order with single spaces and split on whitespace, give the word sequence
\* of the text.
C10_ChunkingKeepsWords ==
  pdfText # Null => Words(Join(pdfChunks, <<" ">>)) = Words(fileText)

\* a text of three words or more has been loaded into several chunks, one
\* of them holding two words
C10_Witness ==
  /\ pdfText # Null
  /\ Len(Words(fileText)) >= 3
  /\ Len(pdfChunks) >= 2
  /\ \E i \in 1..Len(pdfChunks) : Len(Words(pdfChunks[i])) = 2

\* C11: every chunk is at most CHUNK_SIZE characters long, except a chunk
\* that is one single word longer than CHUNK_SIZE.
C11_ChunkLengthBound ==
  \A i \in 1..Len(pdfChunks) :
    \/ StrLen(pdfChunks[i]) <= CHUNK_SIZE
    \/ /\ Words(pdfChunks[i]) = <<pdfChunks[i]>>
       /\ \E j \in 1..Len(Split(fileText)) : Split(fileText)[j] = pdfChunks[i]

\* a text with a word longer than CHUNK_SIZE has been loaded: the word is a
\* chunk of its own
C11_Witness ==
  /\ pdfText # Null
  /\ \E i \in 1..Len(pdfChunks) : StrLen(pdfChunks[i]) > CHUNK_SIZE

\* the tokens of a query: lower-cased, split on whitespace, punctuation
\* stripped
StrippedTokens(query) ==
  LET tokens == Split(toLowerCase(query))
  IN  [i \in 1..Len(tokens) |-> StripPunctuation(tokens[i])]

\* C12: a query whose lower-cased, punctuation-stripped tokens all have
\* length at most 3 retrieves nothing, whatever the chunk list (no term of
\* length at most 3 is used for scoring): when retrieval returns for such a
\* query, it returns no chunk.
C12_ShortTermsRetrieveNothing ==
  \A r \in Reqs :
    (/\ req[r].useRAG /\ Called(r)
     /\ \A i \in 1..Len(StrippedTokens(req[r].userMessage)) :
          StrLen(StrippedTokens(req[r].userMessage)[i]) <= 3)
      => req[r].sources = << >>

\* the position after the literal string pat[k..] when it stands at position
\* p of s (letters compared without case), or 0
RECURSIVE LiteralFrom(_, _, _, _)
LiteralFrom(pat, k, s, p) ==
  IF k > Len(pat) THEN p
  ELSE IF p <= Len(s) /\ LowerChar(s[p]) = LowerChar(pat[k])
       THEN LiteralFrom(pat, k + 1, s, p + 1)
       ELSE 0

\* the number of occurrences of pat as a literal substring of s, counted
\* left to right without overlap by a direct search (the empty string occurs
\* at every position)
RECURSIVE LiteralCountFrom(_, _, _)
LiteralCountFrom(pat, s, p) ==
  IF p > Len(s) + 1 THEN 0
  ELSE LET e == LiteralFrom(pat, 1, s, p)
       IN  IF e = 0 THEN LiteralCountFrom(pat, s, p + 1)
           ELSE IF e = p
                THEN (IF p <= Len(s) THEN AtomLen(s[p]) ELSE 1)
                       + LiteralCountFrom(pat, s, p + 1)
                ELSE 1 + LiteralCountFrom(pat, s, e)

RECURSIVE LiteralScoreFrom(_, _, _)
LiteralScoreFrom(chunk, queryTerms, i) ==
  IF i > Len(queryTerms) THEN 0
  ELSE LiteralCountFrom(queryTerms[i], chunk, 1) + LiteralScoreFrom(chunk, queryTerms, i + 1)

\* C13: the score of a chunk is the sum, over the query terms, of the number
\* of case-insensitive occurrences of the term as a literal substring of the
\* chunk; a term is never read as a pattern: whenever retrieval returns, the
\* score it gave every chunk is that of a direct substring search.
C13_ScoreIsLiteralCount ==
  \A r \in Reqs :
    (req[r].useRAG /\ Called(r)) =>
      \A i \in 1..Len(pdfChunks) :
        Score(pdfChunks[i], QueryTerms(req[r].userMessage))
          = LiteralScoreFrom(pdfChunks[i], QueryTerms(req[r].userMessage), 1)

\* retrieval has returned for the RAG request r
Returned(r) == req[r].useRAG /\ Called(r)

\* the score retrieval gives chunk i for the message of request r
ScoreOf(r, i) == Score(pdfChunks[i], QueryTerms(req[r].userMessage))

\* the place of chunk i among the chunks by falling score, earlier chunks
\* first among equals
Rank(r, i) ==
  1 + Cardinality({j \in 1..Len(pdfChunks) :
                     \/ ScoreOf(r, j) > ScoreOf(r, i)
                     \/ ScoreOf(r, j) = ScoreOf(r, i) /\ j < i})

PhraseCount(chunk) == LiteralCountFrom(VacationPolicy, chunk, 1)

\* C14 as stated: for the query "vacation policy", a chunk that contains the
\* phrase exactly twice has score 2.
C14_PhraseTwiceScoresTwo ==
  \A r \in Reqs :
    (Returned(r) /\ req[r].userMessage = VacationPolicy) =>
      \A i \in 1..Len(pdfChunks) :
        PhraseCount(pdfChunks[i]) = 2 => ScoreOf(r, i) = 2

\* C14, amended: for the query "vacation policy", a chunk that contains the
\* phrase exactly twice has score at least 4, and exactly 4 when neither word
\* occurs outside the phrase (each of the two terms is counted twice); when
\* it is among the three best it is returned at its rank, and every returned
\* chunk with a lower score comes after it.
C14_PhraseTwiceScoresFour ==
  \A r \in Reqs :
    (Returned(r) /\ req[r].userMessage = VacationPolicy) =>
      \A i \in 1..Len(pdfChunks) :
        PhraseCount(pdfChunks[i]) = 2 =>
          /\ ScoreOf(r, i) >= 4
          /\ (/\ LiteralCountFrom(Vacation, pdfChunks[i], 1) = 2
              /\ LiteralCountFrom(Policy, pdfChunks[i], 1) = 2) => ScoreOf(r, i) = 4
          /\ Rank(r, i) <= TopK =>
               /\ Len(req[r].sources) >= Rank(r, i)
               /\ req[r].sources[Rank(r, i)] = pdfChunks[i]
          /\ \A j \in 1..Len(pdfChunks) :
               (/\ ScoreOf(r, j) > 0 /\ ScoreOf(r, j) < ScoreOf(r, i)
                /\ Rank(r, j) <= TopK)
                 => /\ Rank(r, i) < Rank(r, j)
                    /\ req[r].sources[Rank(r, j)] = pdfChunks[j]

\* the query "vacation policy" has returned three chunks: first the last
\* chunk of the document, with the phrase twice and score 4, then a chunk
\* with the phrase once, then a chunk with one of the words only
C14_Witness ==
  \E r \in Reqs :
    /\ Returned(r) /\ req[r].userMessage = VacationPolicy
    /\ Len(req[r].sources) = 3
    /\ \E i \in 1..Len(pdfChunks) :
         /\ i = Len(pdfChunks)
         /\ PhraseCount(pdfChunks[i]) = 2
         /\ ScoreOf(r, i) = 4
         /\ Rank(r, i) = 1
         /\ req[r].sources[1] = pdfChunks[i]
         /\ PhraseCount(req[r].sources[2]) = 1
         /\ PhraseCount(req[r].sources[3]) = 0

\* the chunks to which retrieval gives a positive score for the message of
\* request r
PositiveChunks(r) == {i \in 1..Len(pdfChunks) : ScoreOf(r, i) > 0}

\* C15: retrieval returns the top-3 selection: the number of chunks returned
\* is the number of positive-score chunks, or 3 when there are more, and the
\* k-th chunk returned is the positive-score chunk of rank k (by falling
\* score, earlier chunks first among equals).  Hence at most 3 chunks, each
\* with a positive score, in non-increasing score order with ties in chunk
\* order, no chunk left out scoring higher than one returned, and all the
\* positive-score chunks returned when they are fewer than 3.
C15_TopThreeSelection ==
  \A r \in Reqs :
    Returned(r) =>
      /\ Len(req[r].sources) =
           (IF Cardinality(PositiveChunks(r)) < TopK
            THEN Cardinality(PositiveChunks(r)) ELSE TopK)
      /\ \A i \in PositiveChunks(r) :
           Rank(r, i) <= TopK => req[r].sources[Rank(r, i)] = pdfChunks[i]

\* retrieval has returned three of four positive-score chunks: first a later
\* chunk with the highest score, then the first two of three chunks with
\* equal scores; the third of them is left out
C15_Witness ==
  \E r \in Reqs :
    /\ Returned(r)
    /\ Cardinality(PositiveChunks(r)) = 4
    /\ Len(req[r].sources) = 3
    /\ \E i, j, k, l \in PositiveChunks(r) :
         /\ i < j /\ j < k /\ k < l
         /\ ScoreOf(r, k) > ScoreOf(r, i)
         /\ ScoreOf(r, i) = ScoreOf(r, j) /\ ScoreOf(r, j) = ScoreOf(r, l)
         /\ Rank(r, k) = 1 /\ Rank(r, i) = 2 /\ Rank(r, j) = 3 /\ Rank(r, l) = 4
         /\ req[r].sources = <<pdfChunks[k], pdfChunks[i], pdfChunks[j]>>

\* C16: in a sequential run, once loadPDF has loaded the document, the text
\* and the chunk list are populated for good: no later step reads the file
\* again (no further pdfParse call) or changes pdfText or pdfChunks, whatever
\* the text of the document, the empty text included.
C16_LoadedOnce ==
  [][pdfText # Null =>
       /\ parseCount' = parseCount
       /\ pdfText' = pdfText
       /\ pdfChunks' = pdfChunks]_vars

\* C17: no step of the handler raises: whatever the query, the session and
\* the state of the corpus, the history read, the load and the retrieval
\* complete: no request's handler is ended by an exception of one of these
\* steps, before it has sent its reply or its 500 error body.
C17_NoStepThrows == \A r \in Reqs : req[r].pc # "rejected"

\* C18: the history of a session is append-only: in every step, whatever
\* request takes it and however it ends, every session that exists still
\* exists afterwards and its history before the step is a prefix of its
\* history after it (so the history at an earlier point is a prefix of the
\* history at any later point).
C18_HistoryAppendOnly ==
  [][\A s \in DOMAIN sessionMemories :
       /\ s \in DOMAIN sessionMemories'
       /\ IsPrefix(sessionMemories[s], sessionMemories'[s])]_vars

\* two requests on one session have been answered one after the other: the
\* history the second one read is the pair of the first, and it is now the
\* first half of the session's history
C18_Witness ==
  \E s \in DOMAIN sessionMemories :
    /\ Answered(1) /\ Answered(2)
    /\ req[1].sessionId = s /\ req[2].sessionId = s
    /\ req[1].chat_history = << >>
    /\ Len(req[2].chat_history) = 2
    /\ Len(sessionMemories[s]) = 4
    /\ SubSeq(sessionMemories[s], 1, 2) = req[2].chat_history

\* the session a request is on: the id its body supplied, or "default" when
\* it supplied none
SuppliedSession(request) ==
  IF request.bodySessionId = "undefined" THEN "default" ELSE request.bodySessionId

\* C19: sessions are isolated: a step of a request (whatever its outcome and
\* whatever runs beside it) creates no session and changes no history other
\* than that of the session the request is on, and once the request has built
\* its message list, every turn of the prior history in it is a turn of that
\* session's history, appended by a request on the same session; a request
\* that supplied no session id is on the session "default".
C19_SessionsIsolated ==
  [][\A r \in Reqs :
       req'[r] # req[r] =>
         /\ \A s \in SessionIds \ {SuppliedSession(req'[r])} :
              /\ (s \in DOMAIN sessionMemories') = (s \in DOMAIN sessionMemories)
              /\ getHistory(sessionMemories', s) = getHistory(sessionMemories, s)
         /\ req'[r].pc \in {"invoke", "save", "done"} =>
              \A k \in 1..Len(req'[r].chat_history) :
                /\ k <= Len(getHistory(sessionMemories', SuppliedSession(req'[r])))
                /\ req'[r].chat_history[k]
                     = sessionMemories'[SuppliedSession(req'[r])][k]
                /\ SuppliedSession(req'[owner'[SuppliedSession(req'[r])][k]])
                     = SuppliedSession(req'[r])
                /\ req'[r].chat_history[k].content
                     \in {req'[owner'[SuppliedSession(req'[r])][k]].userMessage,
                          req'[owner'[SuppliedSession(req'[r])][k]].reply}
         /\ (req'[r].pc # "idle" /\ req'[r].bodySessionId = "undefined")
              => req'[r].sessionId = "default"]_vars

\* a request on session "s1" has been answered and then a request without a
\* session id has arrived and has been answered: it read no prior history,
\* and each of the two sessions holds the exchange of its own request
C19_Witness ==
  /\ Answered(1) /\ Answered(2)
  /\ req[1].bodySessionId = "s1" /\ req[2].bodySessionId = "undefined"
  /\ req[1].userMessage # req[2].userMessage
  /\ req[2].chat_history = << >>
  /\ owner["s1"] = <<1, 1>> /\ owner["default"] = <<2, 2>>
  /\ sessionMemories["s1"][1].content = req[1].userMessage
  /\ sessionMemories["default"][1].content = req[2].userMessage

\* C20: the chunk list never holds an empty chunk: whatever the text, every
\* chunk the chunking loop emits holds at least one word, also when a word
\* as long as CHUNK_SIZE or longer meets an empty buffer.
C20_NoEmptyChunk == \A i \in 1..Len(pdfChunks) : pdfChunks[i] # EmptyStr

====
